---- MODULE Spec2Model ----
(***************************************************************************)
(* Product CRUD service: gin handlers (controller) -> DefaultProductService *)
(* -> PostgresProductRepository -> the products table.                     *)
(*                                                                         *)
(* The table is a set of rows, the SERIAL sequence a counter, and the two  *)
(* clocks the code reads (the database's CURRENT_TIMESTAMP and the          *)
(* application's time.Now()) are two variables.  Every handler is one       *)
(* action: it parses its inputs, calls the service, which calls the        *)
(* repository, and writes one response.                                    *)
(***************************************************************************)
EXTENDS Integers, Sequences, FiniteSets, TLC

\* ------------------------------------------------------------------ bounds

\* largest value the SERIAL sequence hands out before Create is cut off
MaxId == 2
\* largest reading of either clock
MaxTime == 1

\* ------------------------------------------------------------- value sets

\* sku_amount values a request may carry (Go int); negative ones are invalid
Amounts == {0 - 1, 0, 1}
\* sku_code / sku_name / expiration values a request may carry
SkuCodes == {"", "c1", "c2"}
SkuNames == {"", "n1"}
Expirations == {"", "e1"}

\* ------------------------------------------------------------------ errors

NoErr == "nil"
\* repository.ErrProductNotFound
ErrProductNotFound == "ErrProductNotFound"
\* database/sql.ErrNoRows
ErrNoRows == "sql.ErrNoRows"
\* errors the driver returns when a statement cannot be executed
StoreErrs == {"driver: bad connection", "pq: deadlock detected"}
\* what the driver does with one statement: NoErr = it executes
Faults == {NoErr} \cup StoreErrs

\* values of the X-Request-ID header of a request, "" for a request without
RequestIds == {"", "rid1"}
\* the id uuid.New() gives the middleware
GeneratedID == "uuid"

\* ----------------------------------------------------------------- Product

\* the text a TIMESTAMP column scans to in a string field
FormatTime(t) == <<t>>
\* the zero value of a string field that holds a timestamp
NoTime == <<>>

\* models.Product{}: the zero value of the struct
ZeroProduct ==
  [id |-> 0, sku_code |-> "", sku_name |-> "", sku_amount |-> 0,
   expiration |-> "", create_at |-> NoTime, update_at |-> NoTime]

AllCols == {"id", "sku_code", "sku_name", "sku_amount", "expiration", "create_at", "update_at"}
TimeCols == {"create_at", "update_at"}

\* sqlx StructScan of one result row with the columns cols into a Product:
\* the fields the result does not carry keep their zero value
StructScan(row, cols) ==
  [k \in AllCols |->
     IF k \in cols
       THEN (IF k \in TimeCols THEN FormatTime(row[k]) ELSE row[k])
       ELSE ZeroProduct[k]]

\* ------------------------------------------------------------ SQL values

SqlStr(s) == [t |-> "str", s |-> s, n |-> 0]
SqlInt(n) == [t |-> "int", s |-> "", n |-> n]
SqlTime(n) == [t |-> "time", s |-> "", n |-> n]

\* the type of value each column of the products table takes
ColType(col) ==
  IF col \in {"id", "sku_amount"} THEN "int"
  ELSE IF col \in TimeCols THEN "time" ELSE "str"

\* the value a bound argument gives a column
ColValue(col, arg) == IF ColType(col) = "str" THEN arg.s ELSE arg.n

\* ------------------------------------------------------------- repository

\* the rows of S in ascending id order (ORDER BY id)
RECURSIVE OrderById(_)
OrderById(S) ==
  IF S = {} THEN <<>>
  ELSE LET m == CHOOSE r \in S : \A q \in S : r.id <= q.id
       IN <<m>> \o OrderById(S \ {m})

\* GetAll with the rows in descending id order
GetAll_Descending(tbl, f) ==
  IF f # NoErr THEN [products |-> <<>>, err |-> f]
  ELSE LET ord == OrderById(tbl)
       IN [products |-> [i \in 1..Len(ord) |-> StructScan(ord[Len(ord) + 1 - i], AllCols)],
           err |-> NoErr]

\* PostgresProductRepository.GetAll
GetAll(tbl, f) ==
  IF f # NoErr THEN [products |-> <<>>, err |-> f]
  ELSE LET ord == OrderById(tbl)
       IN [products |-> [i \in 1..Len(ord) |-> StructScan(ord[i], AllCols)],
           err |-> NoErr]

\* GetByID with every error of the query turned into ErrProductNotFound
GetByID_AllNotFound(tbl, id, f) ==
  LET m == {r \in tbl : r.id = id}
      dbErr == IF f # NoErr THEN f ELSE IF m = {} THEN ErrNoRows ELSE NoErr
  IN IF dbErr # NoErr
       THEN [product |-> ZeroProduct, err |-> ErrProductNotFound]
       ELSE [product |-> StructScan(CHOOSE r \in m : TRUE, AllCols), err |-> NoErr]

\* PostgresProductRepository.GetByID
GetByID(tbl, id, f) ==
  LET m == {r \in tbl : r.id = id}
      dbErr == IF f # NoErr THEN f ELSE IF m = {} THEN ErrNoRows ELSE NoErr
  IN IF dbErr # NoErr
       THEN [product |-> ZeroProduct,
             err |-> IF dbErr = ErrNoRows THEN ErrProductNotFound ELSE dbErr]
       ELSE [product |-> StructScan(CHOOSE r \in m : TRUE, AllCols), err |-> NoErr]

\* Create with the sku_code stored as the sku_name too
Create_NameFromCode(tbl, seq, now, input, f) ==
  IF f # NoErr
    THEN [tbl |-> tbl, seq |-> seq, product |-> ZeroProduct, err |-> f]
  ELSE IF \E r \in tbl : r.id = seq
    THEN [tbl |-> tbl, seq |-> seq + 1, product |-> ZeroProduct,
          err |-> "pq: duplicate key value violates unique constraint"]
  ELSE LET row == [id |-> seq, sku_code |-> input.sku_code, sku_name |-> input.sku_code,
                   sku_amount |-> input.sku_amount, expiration |-> input.expiration,
                   create_at |-> now, update_at |-> now]
       IN [tbl |-> tbl \cup {row}, seq |-> seq + 1,
           product |-> StructScan(row, {"id", "sku_code", "sku_name", "sku_amount", "expiration"}),
           err |-> NoErr]

\* Create with the timestamps among the columns it returns
Create_ReturnsTimestamps(tbl, seq, now, input, f) ==
  IF f # NoErr
    THEN [tbl |-> tbl, seq |-> seq, product |-> ZeroProduct, err |-> f]
  ELSE IF \E r \in tbl : r.id = seq
    THEN [tbl |-> tbl, seq |-> seq + 1, product |-> ZeroProduct,
          err |-> "pq: duplicate key value violates unique constraint"]
  ELSE LET row == [id |-> seq, sku_code |-> input.sku_code, sku_name |-> input.sku_name,
                   sku_amount |-> input.sku_amount, expiration |-> input.expiration,
                   create_at |-> now, update_at |-> now]
       IN [tbl |-> tbl \cup {row}, seq |-> seq + 1,
           product |-> StructScan(row, AllCols), err |-> NoErr]

\* Create with the id of the input inserted when the input carries one
Create_CallerId(tbl, seq, now, input, f) ==
  LET id == IF input.id # 0 THEN input.id ELSE seq
  IN IF f # NoErr
       THEN [tbl |-> tbl, seq |-> seq, product |-> ZeroProduct, err |-> f]
     ELSE IF \E r \in tbl : r.id = id
       THEN [tbl |-> tbl, seq |-> seq + 1, product |-> ZeroProduct,
             err |-> "pq: duplicate key value violates unique constraint"]
     ELSE LET row == [id |-> id, sku_code |-> input.sku_code, sku_name |-> input.sku_name,
                      sku_amount |-> input.sku_amount, expiration |-> input.expiration,
                      create_at |-> now, update_at |-> now]
          IN [tbl |-> tbl \cup {row}, seq |-> seq + 1,
              product |-> StructScan(row, {"id", "sku_code", "sku_name", "sku_amount", "expiration"}),
              err |-> NoErr]

\* PostgresProductRepository.Create: INSERT ... RETURNING; the sequence gives
\* the id, CURRENT_TIMESTAMP (now) both timestamps
Create(tbl, seq, now, input, f) ==
  IF f # NoErr
    THEN [tbl |-> tbl, seq |-> seq, product |-> ZeroProduct, err |-> f]
  ELSE IF \E r \in tbl : r.id = seq
    THEN [tbl |-> tbl, seq |-> seq + 1, product |-> ZeroProduct,
          err |-> "pq: duplicate key value violates unique constraint"]
  ELSE LET row == [id |-> seq, sku_code |-> input.sku_code, sku_name |-> input.sku_name,
                   sku_amount |-> input.sku_amount, expiration |-> input.expiration,
                   create_at |-> now, update_at |-> now]
       IN [tbl |-> tbl \cup {row}, seq |-> seq + 1,
           product |-> StructScan(row, {"id", "sku_code", "sku_name", "sku_amount", "expiration"}),
           err |-> NoErr]

\* AddSet with the argument index left where it was
AddSet_SameIndex(b, col, val) ==
  [sets |-> Append(b.sets, [col |-> col, ph |-> b.argIndex]),
   args |-> Append(b.args, val),
   argIndex |-> b.argIndex]

\* one "col = $n" of the SET list with its argument
AddSet(b, col, val) ==
  [sets |-> Append(b.sets, [col |-> col, ph |-> b.argIndex]),
   args |-> Append(b.args, val),
   argIndex |-> b.argIndex + 1]

\* BuildUpdate with sku_name and expiration set whether blank or not
BuildUpdate_AllColumns(id, input, now) ==
  LET b0 == [sets |-> <<>>, args |-> <<>>, argIndex |-> 1]
      b1 == IF input.sku_code # "" THEN AddSet(b0, "sku_code", SqlStr(input.sku_code)) ELSE b0
      b2 == AddSet(b1, "sku_name", SqlStr(input.sku_name))
      b3 == AddSet(b2, "expiration", SqlStr(input.expiration))
      b4 == AddSet(b3, "sku_amount", SqlInt(input.sku_amount))
      b5 == AddSet(b4, "update_at", SqlTime(now))
  IN [sets |-> b5.sets, where |-> b5.argIndex, args |-> Append(b5.args, SqlInt(id))]

\* BuildUpdate with create_at set as update_at is
BuildUpdate_TouchesCreateAt(id, input, now) ==
  LET b0 == [sets |-> <<>>, args |-> <<>>, argIndex |-> 1]
      b1 == IF input.sku_code # "" THEN AddSet(b0, "sku_code", SqlStr(input.sku_code)) ELSE b0
      b2 == IF input.sku_name # "" THEN AddSet(b1, "sku_name", SqlStr(input.sku_name)) ELSE b1
      b3 == IF input.expiration # "" THEN AddSet(b2, "expiration", SqlStr(input.expiration)) ELSE b2
      b4 == AddSet(b3, "sku_amount", SqlInt(input.sku_amount))
      b5 == AddSet(b4, "update_at", SqlTime(now))
      b6 == AddSet(b5, "create_at", SqlTime(now))
  IN [sets |-> b6.sets, where |-> b6.argIndex, args |-> Append(b6.args, SqlInt(id))]

\* BuildUpdate with sku_amount set when it is not zero, as the strings are
BuildUpdate_AmountIfNonZero(id, input, now) ==
  LET b0 == [sets |-> <<>>, args |-> <<>>, argIndex |-> 1]
      b1 == IF input.sku_code # "" THEN AddSet(b0, "sku_code", SqlStr(input.sku_code)) ELSE b0
      b2 == IF input.sku_name # "" THEN AddSet(b1, "sku_name", SqlStr(input.sku_name)) ELSE b1
      b3 == IF input.expiration # "" THEN AddSet(b2, "expiration", SqlStr(input.expiration)) ELSE b2
      b4 == IF input.sku_amount # 0 THEN AddSet(b3, "sku_amount", SqlInt(input.sku_amount)) ELSE b3
      b5 == AddSet(b4, "update_at", SqlTime(now))
  IN [sets |-> b5.sets, where |-> b5.argIndex, args |-> Append(b5.args, SqlInt(id))]

\* the statement UpdateNonBlank builds: the SET list, the placeholder of the
\* WHERE id predicate, and the bound arguments
BuildUpdate(id, input, now) ==
  LET b0 == [sets |-> <<>>, args |-> <<>>, argIndex |-> 1]
      b1 == IF input.sku_code # "" THEN AddSet(b0, "sku_code", SqlStr(input.sku_code)) ELSE b0
      b2 == IF input.sku_name # "" THEN AddSet(b1, "sku_name", SqlStr(input.sku_name)) ELSE b1
      b3 == IF input.expiration # "" THEN AddSet(b2, "expiration", SqlStr(input.expiration)) ELSE b2
      b4 == AddSet(b3, "sku_amount", SqlInt(input.sku_amount))
      b5 == AddSet(b4, "update_at", SqlTime(now))
  IN [sets |-> b5.sets, where |-> b5.argIndex, args |-> Append(b5.args, SqlInt(id))]

\* the row after the assignments of a SET list
RECURSIVE ApplySets(_, _, _)
ApplySets(row, sets, args) ==
  IF sets = <<>> THEN row
  ELSE LET s == Head(sets)
       IN ApplySets([row EXCEPT ![s.col] = ColValue(s.col, args[s.ph])], Tail(sets), args)

\* the statement q is one the database accepts: every placeholder has an
\* argument, of the column's type
WellFormedUpdate(q) ==
  /\ q.where \in 1..Len(q.args)
  /\ q.args[q.where].t = "int"
  /\ \A i \in 1..Len(q.sets) :
       /\ q.sets[i].ph \in 1..Len(q.args)
       /\ q.args[q.sets[i].ph].t = ColType(q.sets[i].col)

\* UpdateNonBlank with sql.ErrNoRows returned as it is
UpdateNonBlank_RawNoRows(tbl, id, input, now, f) ==
  LET q == BuildUpdate(id, input, now)
      m == IF f = NoErr THEN {r \in tbl : r.id = q.args[q.where].n} ELSE {}
      upd == {ApplySets(r, q.sets, q.args) : r \in m}
      dbErr == IF f # NoErr THEN f ELSE IF m = {} THEN ErrNoRows ELSE NoErr
  IN IF dbErr # NoErr
       THEN [tbl |-> tbl, product |-> ZeroProduct, err |-> dbErr]
       ELSE [tbl |-> (tbl \ m) \cup upd,
             product |-> StructScan(CHOOSE r \in upd : TRUE,
                           {"id", "update_at", "sku_code", "sku_name", "sku_amount", "expiration"}),
             err |-> NoErr]

\* UpdateNonBlank inserting the row when no row has the id
UpdateNonBlank_Upsert(tbl, id, input, now, f) ==
  LET q == BuildUpdate(id, input, now)
      m == IF f = NoErr THEN {r \in tbl : r.id = q.args[q.where].n} ELSE {}
      base == IF m = {} THEN {[ZeroProduct EXCEPT !.id = id, !.create_at = now]} ELSE m
      upd == {ApplySets(r, q.sets, q.args) : r \in base}
  IN IF f # NoErr
       THEN [tbl |-> tbl, product |-> ZeroProduct, err |-> f]
       ELSE [tbl |-> (tbl \ m) \cup upd,
             product |-> StructScan(CHOOSE r \in upd : TRUE,
                           {"id", "update_at", "sku_code", "sku_name", "sku_amount", "expiration"}),
             err |-> NoErr]

\* PostgresProductRepository.UpdateNonBlank: builds the statement, runs it
\* (UPDATE ... WHERE id = $n RETURNING ...) and scans the returned row
UpdateNonBlank(tbl, id, input, now, f) ==
  LET q == BuildUpdate(id, input, now)
      ok == f = NoErr /\ WellFormedUpdate(q)
      m == IF ok THEN {r \in tbl : r.id = q.args[q.where].n} ELSE {}
      upd == {ApplySets(r, q.sets, q.args) : r \in m}
      dbErr == IF f # NoErr THEN f
               ELSE IF ~WellFormedUpdate(q) THEN "pq: could not determine data type of parameter"
               ELSE IF m = {} THEN ErrNoRows ELSE NoErr
  IN IF dbErr # NoErr
       THEN [tbl |-> tbl, product |-> ZeroProduct,
             err |-> IF dbErr = ErrNoRows THEN ErrProductNotFound ELSE dbErr]
       ELSE [tbl |-> (tbl \ m) \cup upd,
             product |-> StructScan(CHOOSE r \in upd : TRUE,
                           {"id", "update_at", "sku_code", "sku_name", "sku_amount", "expiration"}),
             err |-> NoErr]

\* Delete with no WHERE clause
Delete_EveryRow(tbl, id, f) ==
  LET rowsAffected == Cardinality(tbl)
  IN IF f # NoErr THEN [tbl |-> tbl, err |-> f]
     ELSE IF rowsAffected = 0 THEN [tbl |-> tbl, err |-> ErrProductNotFound]
     ELSE [tbl |-> {}, err |-> NoErr]

\* Delete reporting success with the row left in the table
Delete_KeepsRow(tbl, id, f) ==
  LET m == {r \in tbl : r.id = id}
      rowsAffected == Cardinality(m)
  IN IF f # NoErr THEN [tbl |-> tbl, err |-> f]
     ELSE IF rowsAffected = 0 THEN [tbl |-> tbl, err |-> ErrProductNotFound]
     ELSE [tbl |-> tbl, err |-> NoErr]

\* Delete without the test of rowsAffected
Delete_IgnoresRowsAffected(tbl, id, f) ==
  LET m == {r \in tbl : r.id = id}
  IN IF f # NoErr THEN [tbl |-> tbl, err |-> f]
     ELSE [tbl |-> tbl \ m, err |-> NoErr]

\* PostgresProductRepository.Delete
Delete(tbl, id, f) ==
  LET m == {r \in tbl : r.id = id}
      rowsAffected == Cardinality(m)
  IN IF f # NoErr THEN [tbl |-> tbl, err |-> f]
     ELSE IF rowsAffected = 0 THEN [tbl |-> tbl, err |-> ErrProductNotFound]
     ELSE [tbl |-> tbl \ m, err |-> NoErr]

\* ---------------------------------------------------------------- service

\* DefaultProductService.GetProducts
SvcGetProducts(tbl, f) ==
  LET r == GetAll(tbl, f)
  IN [products |-> r.products, err |-> r.err, calls |-> <<"repo.GetAll">>]

\* GetProduct with ErrProductNotFound turned into an empty product
SvcGetProduct_HidesNotFound(tbl, id, f) ==
  LET r == GetByID(tbl, id, f)
  IN [product |-> r.product,
      err |-> IF r.err = ErrProductNotFound THEN NoErr ELSE r.err,
      calls |-> <<"repo.GetByID">>]

\* DefaultProductService.GetProduct
SvcGetProduct(tbl, id, f) ==
  LET r == GetByID(tbl, id, f)
  IN [product |-> r.product, err |-> r.err, calls |-> <<"repo.GetByID">>]

\* DefaultProductService.CreateProduct
SvcCreateProduct(tbl, seq, now, input, f) ==
  LET r == Create(tbl, seq, now, input, f)
  IN [tbl |-> r.tbl, seq |-> r.seq, product |-> r.product, err |-> r.err,
      calls |-> <<"repo.Create">>]

\* DefaultProductService.UpdateProduct: the existence check, then the update;
\* fs[1] is what the driver does with the check's query, fs[2] with the update
SvcUpdateProduct(tbl, id, input, now, fs) ==
  LET chk == GetByID(tbl, id, fs[1])
      upd == UpdateNonBlank(tbl, id, input, now, fs[2])
  IN IF chk.err # NoErr
       THEN [tbl |-> tbl, product |-> ZeroProduct, err |-> chk.err,
             calls |-> <<"repo.GetByID">>]
       ELSE [tbl |-> upd.tbl, product |-> upd.product, err |-> upd.err,
             calls |-> <<"repo.GetByID", "repo.UpdateNonBlank">>]

\* DeleteProduct without the existence check
SvcDeleteProduct_NoCheck(tbl, id, fs) ==
  LET del == Delete(tbl, id, fs[2])
  IN [tbl |-> del.tbl, err |-> del.err, calls |-> <<"repo.Delete">>]

\* DeleteProduct going on to the delete when the check failed with an error
\* other than ErrProductNotFound
SvcDeleteProduct_IgnoresCheckFault(tbl, id, fs) ==
  LET chk == GetByID(tbl, id, fs[1])
      del == Delete(tbl, id, fs[2])
  IN IF chk.err = ErrProductNotFound
       THEN [tbl |-> tbl, err |-> chk.err, calls |-> <<"repo.GetByID">>]
       ELSE [tbl |-> del.tbl, err |-> del.err, calls |-> <<"repo.GetByID", "repo.Delete">>]

\* DefaultProductService.DeleteProduct: the existence check, then the delete
SvcDeleteProduct(tbl, id, fs) ==
  LET chk == GetByID(tbl, id, fs[1])
      del == Delete(tbl, id, fs[2])
  IN IF chk.err # NoErr
       THEN [tbl |-> tbl, err |-> chk.err, calls |-> <<"repo.GetByID">>]
       ELSE [tbl |-> del.tbl, err |-> del.err, calls |-> <<"repo.GetByID", "repo.Delete">>]

\* ---------------------------------------------------------- request parsing

DigitChars == <<"0", "1", "2", "3", "4", "5", "6", "7", "8", "9">>
IsDigit(c) == \E i \in 1..Len(DigitChars) : DigitChars[i] = c
DigitVal(c) == (CHOOSE i \in 1..Len(DigitChars) : DigitChars[i] = c) - 1

\* the number a string of decimal digits denotes
RECURSIVE DecimalValue(_)
DecimalValue(ds) ==
  IF ds = <<>> THEN 0
  ELSE 10 * DecimalValue(SubSeq(ds, 1, Len(ds) - 1)) + DigitVal(ds[Len(ds)])

\* the digits of 2^63 - 1 and of 2^63
MaxInt64Digits ==
  <<"9", "2", "2", "3", "3", "7", "2", "0", "3", "6", "8", "5", "4", "7", "7", "5", "8", "0", "7">>
MinInt64Digits ==
  <<"9", "2", "2", "3", "3", "7", "2", "0", "3", "6", "8", "5", "4", "7", "7", "5", "8", "0", "8">>

\* a string of digits without its leading zeros
RECURSIVE StripZeros(_)
StripZeros(ds) ==
  IF ds # <<>> /\ Head(ds) = "0" THEN StripZeros(Tail(ds)) ELSE ds

\* of two strings of digits of one length, the first denotes no more than the
\* second
RECURSIVE DigitsLeq(_, _)
DigitsLeq(a, b) ==
  IF a = <<>> THEN TRUE
  ELSE IF DigitVal(Head(a)) # DigitVal(Head(b)) THEN DigitVal(Head(a)) < DigitVal(Head(b))
  ELSE DigitsLeq(Tail(a), Tail(b))

\* the number the digits denote, negated or not, fits 64 bits
InRange64(negative, ds) ==
  LET d == StripZeros(ds)
  IN \/ Len(d) < Len(MaxInt64Digits)
     \/ /\ Len(d) = Len(MaxInt64Digits)
        /\ DigitsLeq(d, IF negative THEN MinInt64Digits ELSE MaxInt64Digits)

\* ParseInt taking a sign with no digit after it for zero
ParseInt_SignAlone(s) ==
  LET signed == s # <<>> /\ s[1] \in {"+", "-"}
      ds == IF signed THEN Tail(s) ELSE s
      syntaxOK == s # <<>> /\ \A i \in 1..Len(ds) : IsDigit(ds[i])
  IN IF ~syntaxOK \/ ~InRange64(signed /\ s[1] = "-", ds) THEN [ok |-> FALSE, n |-> 0]
     ELSE [ok |-> TRUE, n |-> IF s[1] = "-" THEN 0 - DecimalValue(ds) ELSE DecimalValue(ds)]

\* strconv.ParseInt(s, 10, 64) of a path parameter, a sequence of characters:
\* an optional sign, then one or more digits, denoting a number of the 64-bit
\* range (the value itself is computed for the short parameters only)
ParseInt(s) ==
  LET signed == s # <<>> /\ s[1] \in {"+", "-"}
      ds == IF signed THEN Tail(s) ELSE s
      syntaxOK == ds # <<>> /\ \A i \in 1..Len(ds) : IsDigit(ds[i])
  IN IF ~syntaxOK \/ ~InRange64(signed /\ s[1] = "-", ds) THEN [ok |-> FALSE, n |-> 0]
     ELSE [ok |-> TRUE, n |-> IF s[1] = "-" THEN 0 - DecimalValue(ds) ELSE DecimalValue(ds)]

\* JSON values of a request body
JStr(s) == [t |-> "string", s |-> s, n |-> 0]
JNum(n) == [t |-> "number", s |-> "", n |-> n]
JNull == [t |-> "null", s |-> "", n |-> 0]
\* a key the body does not carry
Absent == [t |-> "absent", s |-> "", n |-> 0]

\* the JSON type each Product field a body may carry unmarshals from
JsonType(k) == IF k \in {"id", "sku_amount"} THEN "number" ELSE "string"

BodyKeys == {"id", "sku_code", "sku_name", "sku_amount", "expiration"}

\* a body that is a JSON object: the keys given a value other than Absent
JsonObject(id, code, name, amount, expiration) ==
  LET all == [id |-> id, sku_code |-> code, sku_name |-> name,
              sku_amount |-> amount, expiration |-> expiration]
      present == {k \in BodyKeys : all[k].t # "absent"}
  IN [wellformed |-> TRUE, obj |-> [k \in present |-> all[k]]]

\* a body that is not JSON at all
Malformed == [wellformed |-> FALSE, obj |-> [k \in {} |-> Absent]]

\* ShouldBindJSON with a value of the wrong type skipped
ShouldBindJSON_SkipsWrongType(raw) ==
  LET obj == raw.obj
      given(k) == k \in DOMAIN obj /\ obj[k].t = JsonType(k)
      field(k) == IF ~given(k) THEN ZeroProduct[k]
                  ELSE IF JsonType(k) = "number" THEN obj[k].n ELSE obj[k].s
  IN IF ~raw.wellformed
       THEN [ok |-> FALSE, input |-> ZeroProduct]
       ELSE [ok |-> TRUE,
             input |-> [k \in AllCols |-> IF k \in BodyKeys THEN field(k) ELSE ZeroProduct[k]]]

\* c.ShouldBindJSON(&input): an absent key or a null leaves the field's zero
\* value; a value of another JSON type than the field's is an error
ShouldBindJSON(raw) ==
  LET obj == raw.obj
      given(k) == k \in DOMAIN obj /\ obj[k].t # "null"
      typeErr == \E k \in DOMAIN obj : given(k) /\ obj[k].t # JsonType(k)
      field(k) == IF ~given(k) THEN ZeroProduct[k]
                  ELSE IF JsonType(k) = "number" THEN obj[k].n ELSE obj[k].s
  IN IF ~raw.wellformed \/ typeErr
       THEN [ok |-> FALSE, input |-> ZeroProduct]
       ELSE [ok |-> TRUE,
             input |-> [k \in AllCols |-> IF k \in BodyKeys THEN field(k) ELSE ZeroProduct[k]]]

\* validateProduct without the rule on sku_amount
validateProduct_CodeOnly(product) ==
  IF product.sku_code = "" THEN "MsgSkuCodeEmpty" ELSE NoErr

\* validateProduct: the message of the rule the product breaks, NoErr if none
\* ("MsgSkuCodeEmpty" and "MsgSkuAmountNegative" stand for the two messages)
validateProduct(product) ==
  IF product.sku_code = "" THEN "MsgSkuCodeEmpty"
  ELSE IF product.sku_amount < 0 THEN "MsgSkuAmountNegative"
  ELSE NoErr

\* ------------------------------------------------------------------- state

VARIABLES
  rows,     \* the products table: a set of rows
  nextId,   \* the next value of the SERIAL sequence behind products.id
  dbNow,    \* the database's clock (CURRENT_TIMESTAMP)
  appNow,   \* the application's clock (time.Now())
  resp,     \* the response the last handled request was answered with
  calls,    \* the service and repository calls the last handled request made
  req,      \* the last handled request: route, path parameter, X-Request-ID
  mw,       \* what the logging middleware did for it: header set, entry logged
  ret,      \* direct repository calls: the operation called last and its return
  stmt,     \* statement builder runs: the arguments, then the statement built
  tasks,    \* service calls running side by side: each one's position and result
  boot      \* the process: where main is, the connection attempts, the exit

vars == <<rows, nextId, dbNow, appNow, resp, calls, req, mw, ret, stmt, tasks, boot>>

store == <<rows, nextId>>
clocks == <<dbNow, appNow>>

NoResponse == [status |-> 0, code |-> "", msg |-> "", request_id |-> ""]
NoBody == [code |-> "", msg |-> "", request_id |-> ""]
NoLog == [header |-> "", log |-> [level |-> "", request_id |-> "", status |-> 0, error_response |-> NoBody]]
NoRequest == [route |-> "", id |-> <<>>, hdr |-> ""]
NoReturn == [op |-> "", id |-> 0, product |-> ZeroProduct, err |-> NoErr]
NoQuery == [sets |-> <<>>, where |-> 0, args |-> <<>>]
NoStmt == [phase |-> "none", id |-> 0, input |-> ZeroProduct, now |-> 0, q |-> NoQuery]

\* the goroutines that call the service side by side, none of them in a call
Callers == {"g1", "g2"}
NoTask == [pc |-> "idle", op |-> "", id |-> 0, sawRow |-> FALSE, lost |-> FALSE, err |-> NoErr]
NoTasks == [g \in Callers |-> NoTask]

\* the process once SetupApplication has connected and router.Run serves
NoHandle == "nil"
Handle == "db"
Serving ==
  [pc |-> "serving", i |-> 0, attempts |-> 1, sleeps |-> 0, db |-> Handle,
   err |-> NoErr, cfg |-> "cfg", exit |-> 0 - 1, panicked |-> FALSE]

\* the table after CREATE TABLE: the rows init-db.sql then inserts are rows
\* three Create requests produce
Init ==
  /\ rows = {}
  /\ nextId = 1
  /\ dbNow = 0
  /\ appNow = 0
  /\ resp = NoResponse
  /\ calls = <<>>
  /\ req = NoRequest
  /\ mw = NoLog
  /\ ret = NoReturn
  /\ stmt = NoStmt
  /\ tasks = NoTasks
  /\ boot = Serving

\* -------------------------------------------------------------- controller

\* respondWithError with no request_id in the envelope
respondWithError_NoRequestID(statusCode, errorCode, message, requestID) ==
  [status |-> statusCode, code |-> errorCode, msg |-> message, request_id |-> ""]

\* respondWithError: the error envelope (an empty request_id is left out of
\* the JSON: omitempty)
respondWithError(statusCode, errorCode, message, requestID) ==
  [status |-> statusCode, code |-> errorCode, msg |-> message, request_id |-> requestID]

\* c.JSON(status, payload) of a success: no envelope
respondOK(statusCode) == [status |-> statusCode, code |-> "", msg |-> "", request_id |-> ""]

\* a handler's return before it calls the service
Rejected(tbl, seq, statusCode, errorCode, message, requestID) ==
  [resp |-> respondWithError(statusCode, errorCode, message, requestID), calls |-> <<>>,
   tbl |-> tbl, seq |-> seq]

\* Each handler as the function it computes: from the table, the sequence,
\* the clock it reads and the request (hdr is c.GetHeader("X-Request-ID"),
\* empty when the request has no such header), the response it writes, the
\* calls it makes and the table and sequence it leaves.

\* GetProducts with the error's text as the message of the response
HandleGetProducts_LeaksError(tbl, seq, hdr, f) ==
  LET r == SvcGetProducts(tbl, f)
  IN [resp |-> IF r.err # NoErr
                 THEN respondWithError(500, "PRODUCT_FETCH_ERROR", r.err, hdr)
                 ELSE respondOK(200),
      calls |-> <<"service.GetProducts">> \o r.calls, tbl |-> tbl, seq |-> seq]

\* ProductController.GetProducts
HandleGetProducts(tbl, seq, hdr, f) ==
  LET r == SvcGetProducts(tbl, f)
  IN [resp |-> IF r.err # NoErr
                 THEN respondWithError(500, "PRODUCT_FETCH_ERROR", "MsgFetchListFailed", hdr)
                 ELSE respondOK(200),
      calls |-> <<"service.GetProducts">> \o r.calls, tbl |-> tbl, seq |-> seq]

\* GetProduct without the errors.Is branch
HandleGetProduct_NotFoundAs500(tbl, seq, hdr, idStr, f) ==
  LET p == ParseInt(idStr)
      r == SvcGetProduct(tbl, p.n, f)
  IN IF ~p.ok THEN Rejected(tbl, seq, 400, "INVALID_PRODUCT_ID", "MsgInvalidProductID", hdr)
     ELSE [resp |-> IF r.err # NoErr
                      THEN respondWithError(500, "PRODUCT_FETCH_ERROR", "MsgFetchFailed", hdr)
                    ELSE respondOK(200),
           calls |-> <<"service.GetProduct">> \o r.calls, tbl |-> tbl, seq |-> seq]

\* ProductController.GetProduct
HandleGetProduct(tbl, seq, hdr, idStr, f) ==
  LET p == ParseInt(idStr)
      r == SvcGetProduct(tbl, p.n, f)
  IN IF ~p.ok THEN Rejected(tbl, seq, 400, "INVALID_PRODUCT_ID", "MsgInvalidProductID", hdr)
     ELSE [resp |-> IF r.err = ErrProductNotFound
                      THEN respondWithError(404, "PRODUCT_NOT_FOUND", "MsgProductNotFound", hdr)
                    ELSE IF r.err # NoErr
                      THEN respondWithError(500, "PRODUCT_FETCH_ERROR", "MsgFetchFailed", hdr)
                    ELSE respondOK(200),
           calls |-> <<"service.GetProduct">> \o r.calls, tbl |-> tbl, seq |-> seq]

\* CreateProduct answering 201 whatever the service returned
HandleCreateProduct_AlwaysCreated(tbl, seq, now, hdr, raw, f) ==
  LET b == ShouldBindJSON(raw)
      v == validateProduct(b.input)
      r == SvcCreateProduct(tbl, seq, now, b.input, f)
  IN IF ~b.ok THEN Rejected(tbl, seq, 400, "INVALID_REQUEST_DATA", "MsgInvalidRequestData", hdr)
     ELSE IF v # NoErr THEN Rejected(tbl, seq, 400, "PRODUCT_VALIDATION_ERROR", v, hdr)
     ELSE [resp |-> respondOK(201),
           calls |-> <<"service.CreateProduct">> \o r.calls, tbl |-> r.tbl, seq |-> r.seq]

\* ProductController.CreateProduct
HandleCreateProduct(tbl, seq, now, hdr, raw, f) ==
  LET b == ShouldBindJSON(raw)
      v == validateProduct(b.input)
      r == SvcCreateProduct(tbl, seq, now, b.input, f)
  IN IF ~b.ok THEN Rejected(tbl, seq, 400, "INVALID_REQUEST_DATA", "MsgInvalidRequestData", hdr)
     ELSE IF v # NoErr THEN Rejected(tbl, seq, 400, "PRODUCT_VALIDATION_ERROR", v, hdr)
     ELSE [resp |-> IF r.err # NoErr
                      THEN respondWithError(500, "PRODUCT_CREATE_ERROR", "MsgCreateFailed", hdr)
                      ELSE respondOK(201),
           calls |-> <<"service.CreateProduct">> \o r.calls, tbl |-> r.tbl, seq |-> r.seq]

\* UpdateProduct without the call of validateProduct
HandleUpdateProduct_NoValidate(tbl, seq, now, hdr, idStr, raw, fs) ==
  LET p == ParseInt(idStr)
      b == ShouldBindJSON(raw)
      r == SvcUpdateProduct(tbl, p.n, b.input, now, fs)
  IN IF ~p.ok THEN Rejected(tbl, seq, 400, "INVALID_PRODUCT_ID", "MsgInvalidProductID", hdr)
     ELSE IF ~b.ok THEN Rejected(tbl, seq, 400, "INVALID_REQUEST_DATA", "MsgInvalidRequestData", hdr)
     ELSE [resp |-> IF r.err = ErrProductNotFound
                      THEN respondWithError(404, "PRODUCT_NOT_FOUND", "MsgProductNotFound", hdr)
                    ELSE IF r.err # NoErr
                      THEN respondWithError(500, "PRODUCT_UPDATE_ERROR", "MsgUpdateFailed", hdr)
                    ELSE respondOK(200),
           calls |-> <<"service.UpdateProduct">> \o r.calls, tbl |-> r.tbl, seq |-> seq]

\* ProductController.UpdateProduct
HandleUpdateProduct(tbl, seq, now, hdr, idStr, raw, fs) ==
  LET p == ParseInt(idStr)
      b == ShouldBindJSON(raw)
      v == validateProduct(b.input)
      r == SvcUpdateProduct(tbl, p.n, b.input, now, fs)
  IN IF ~p.ok THEN Rejected(tbl, seq, 400, "INVALID_PRODUCT_ID", "MsgInvalidProductID", hdr)
     ELSE IF ~b.ok THEN Rejected(tbl, seq, 400, "INVALID_REQUEST_DATA", "MsgInvalidRequestData", hdr)
     ELSE IF v # NoErr THEN Rejected(tbl, seq, 400, "PRODUCT_VALIDATION_ERROR", v, hdr)
     ELSE [resp |-> IF r.err = ErrProductNotFound
                      THEN respondWithError(404, "PRODUCT_NOT_FOUND", "MsgProductNotFound", hdr)
                    ELSE IF r.err # NoErr
                      THEN respondWithError(500, "PRODUCT_UPDATE_ERROR", "MsgUpdateFailed", hdr)
                    ELSE respondOK(200),
           calls |-> <<"service.UpdateProduct">> \o r.calls, tbl |-> r.tbl, seq |-> seq]

\* ProductController.DeleteProduct
HandleDeleteProduct(tbl, seq, hdr, idStr, fs) ==
  LET p == ParseInt(idStr)
      r == SvcDeleteProduct(tbl, p.n, fs)
  IN IF ~p.ok THEN Rejected(tbl, seq, 400, "INVALID_PRODUCT_ID", "MsgInvalidProductID", hdr)
     ELSE [resp |-> IF r.err = ErrProductNotFound
                      THEN respondWithError(404, "PRODUCT_NOT_FOUND", "MsgProductNotFound", hdr)
                    ELSE IF r.err # NoErr
                      THEN respondWithError(500, "PRODUCT_DELETE_ERROR", "MsgDeleteFailed", hdr)
                    ELSE respondOK(200),
           calls |-> <<"service.DeleteProduct">> \o r.calls, tbl |-> r.tbl, seq |-> seq]

\* LoggerMiddleware around a handler: a request without X-Request-ID gets a
\* generated id, set as a header of the response; once the handler has
\* returned, one entry is logged: at info level for a status below 400, at
\* error level with the response body otherwise
LoggerMiddleware(hdr, response) ==
  LET requestID == IF hdr = "" THEN GeneratedID ELSE hdr
  IN [header |-> IF hdr = "" THEN GeneratedID ELSE "",
      log |-> [level |-> IF response.status < 400 THEN "info" ELSE "error",
               request_id |-> requestID,
               status |-> response.status,
               error_response |->
                 IF response.status < 400 THEN NoBody
                 ELSE [code |-> response.code, msg |-> response.msg,
                       request_id |-> response.request_id]]]

\* Serve with a response of status 500 followed by the end of the process
Serve_FatalOnStoreFault(route, idStr, hdr, o) ==
  /\ boot.pc = "serving"
  /\ boot' = IF o.resp.status = 500 THEN [boot EXCEPT !.pc = "exited", !.exit = 1] ELSE boot
  /\ req' = [route |-> route, id |-> idStr, hdr |-> hdr]
  /\ mw' = LoggerMiddleware(hdr, o.resp)
  /\ resp' = o.resp
  /\ calls' = o.calls
  /\ rows' = o.tbl
  /\ nextId' = o.seq
  /\ UNCHANGED <<clocks, ret, stmt, tasks>>

\* the server handles one request: what the handler computed becomes the
\* response, the calls made, the table and the sequence; no handler, service
\* or repository function ends or panics the process
Serve(route, idStr, hdr, o) ==
  /\ boot.pc = "serving"
  /\ boot' = boot
  /\ req' = [route |-> route, id |-> idStr, hdr |-> hdr]
  /\ mw' = LoggerMiddleware(hdr, o.resp)
  /\ resp' = o.resp
  /\ calls' = o.calls
  /\ rows' = o.tbl
  /\ nextId' = o.seq
  /\ UNCHANGED <<clocks, ret, stmt, tasks>>

\* what the driver may do with the two statements of an update or a delete
NoFaults == <<NoErr, NoErr>>
FaultPlans ==
  {NoFaults} \cup {<<e, NoErr>> : e \in StoreErrs} \cup {<<NoErr, e>> : e \in StoreErrs}

\* what the driver does in the requests of the model: it runs the statement
\* or fails it with one of the store errors
ServedErr == "driver: bad connection"
ServedFaults == {NoErr, ServedErr}
ServedPlans == {NoFaults, <<ServedErr, NoErr>>, <<NoErr, ServedErr>>}

\* a request the handler rejects never reaches the driver: the driver has a
\* say in the requests that reach the service only
DriverChoices(o) == IF o.calls = <<>> THEN {NoFaults} ELSE ServedPlans

\* GET /products
GetProducts(hdr) ==
  \E f \in ServedFaults :
    \E o \in {HandleGetProducts(rows, nextId, hdr, f)} : Serve("GET /products", <<>>, hdr, o)

\* GET /products/:id
GetProduct(hdr, idStr) ==
  \E f \in ServedFaults :
    \E o \in {HandleGetProduct(rows, nextId, hdr, idStr, f)} :
      Serve("GET /products/:id", idStr, hdr, o)

\* POST /products (cut off once the sequence has handed out MaxId)
CreateProduct(hdr, raw) ==
  /\ nextId <= MaxId
  /\ \E fs \in DriverChoices(HandleCreateProduct(rows, nextId, dbNow, hdr, raw, NoErr)) :
       \E o \in {HandleCreateProduct(rows, nextId, dbNow, hdr, raw, fs[1])} :
         Serve("POST /products", <<>>, hdr, o)

\* PUT /products/:id
UpdateProduct(hdr, idStr, raw) ==
  \E fs \in DriverChoices(HandleUpdateProduct(rows, nextId, appNow, hdr, idStr, raw, NoFaults)) :
    \E o \in {HandleUpdateProduct(rows, nextId, appNow, hdr, idStr, raw, fs)} :
      Serve("PUT /products/:id", idStr, hdr, o)

\* DELETE /products/:id
DeleteProduct(hdr, idStr) ==
  \E fs \in DriverChoices(HandleDeleteProduct(rows, nextId, hdr, idStr, NoFaults)) :
    \E o \in {HandleDeleteProduct(rows, nextId, hdr, idStr, fs)} :
      Serve("DELETE /products/:id", idStr, hdr, o)

\* ------------------------------------------------------------------ clocks

\* the database's clock advances
TickDB ==
  /\ dbNow < MaxTime
  /\ dbNow' = dbNow + 1
  /\ UNCHANGED <<store, appNow, resp, calls, req, mw, ret, stmt, tasks, boot>>

\* the application's clock advances
TickApp ==
  /\ appNow < MaxTime
  /\ appNow' = appNow + 1
  /\ UNCHANGED <<store, dbNow, resp, calls, req, mw, ret, stmt, tasks, boot>>

\* --------------------------------------------------------------- bootstrap

\* NewPostgresDB: the number of connection attempts
maxRetries == 5

ConnectErr == "dial tcp: connection refused"
PingErr == "pq: the database system is starting up"

\* main has entered NewServer, SetupApplication has loaded the configuration
\* and the logger and enters NewPostgresDB: i = 0, nothing attempted
Starting ==
  [pc |-> "connect", i |-> 0, attempts |-> 0, sleeps |-> 0, db |-> NoHandle,
   err |-> NoErr, cfg |-> "cfg", exit |-> 0 - 1, panicked |-> FALSE]

\* the wait after every failed attempt, the last one too
NeedsSleep_Always(i) == TRUE

\* if i < maxRetries-1: the wait follows a failed attempt that is not the last
NeedsSleep(i) == i < maxRetries - 1

\* i++ and the loop's test: the next attempt, or the end of the loop with
\* err set, where NewPostgresDB returns nil and the error
NextIteration(b) ==
  [b EXCEPT !.i = b.i + 1,
            !.pc = IF b.i + 1 < maxRetries THEN "connect" ELSE "db_returned"]

\* one sqlx.Connect of the loop: it connects, and the loop is left for the
\* Ping, or it fails, and the wait or the next iteration follows
Connect ==
  /\ boot.pc = "connect"
  /\ \E ok \in BOOLEAN :
       LET b == [boot EXCEPT !.attempts = boot.attempts + 1,
                             !.db = IF ok THEN Handle ELSE NoHandle,
                             !.err = IF ok THEN NoErr ELSE ConnectErr]
       IN boot' = IF ok THEN [b EXCEPT !.pc = "ping"]
                  ELSE IF NeedsSleep(b.i) THEN [b EXCEPT !.pc = "sleep"]
                  ELSE NextIteration(b)
  /\ UNCHANGED <<store, clocks, resp, calls, req, mw, ret, stmt, tasks>>

\* time.Sleep(retryInterval), then the next iteration
Sleep ==
  /\ boot.pc = "sleep"
  /\ boot' = NextIteration([boot EXCEPT !.sleeps = boot.sleeps + 1])
  /\ UNCHANGED <<store, clocks, resp, calls, req, mw, ret, stmt, tasks>>

\* db.Ping() after the loop: NewPostgresDB returns the handle, or nil and the
\* error of the Ping
Ping ==
  /\ boot.pc = "ping"
  /\ \E ok \in BOOLEAN :
       boot' = [boot EXCEPT !.pc = "db_returned",
                            !.db = IF ok THEN Handle ELSE NoHandle,
                            !.err = IF ok THEN NoErr ELSE PingErr]
  /\ UNCHANGED <<store, clocks, resp, calls, req, mw, ret, stmt, tasks>>

\* SetupApplication after NewPostgresDB: on an error it returns nil, nil and
\* the error to NewServer; otherwise it builds the router and router.Run serves
SetupApplication ==
  /\ boot.pc = "db_returned"
  /\ boot' = IF boot.err # NoErr
               THEN [boot EXCEPT !.pc = "setup_returned", !.cfg = "nil"]
               ELSE [boot EXCEPT !.pc = "serving"]
  /\ UNCHANGED <<store, clocks, resp, calls, req, mw, ret, stmt, tasks>>

\* NewServer once SetupApplication has returned, and main after it:
\* gin.SetMode(cfg.Server.Mode) first, a nil pointer dereference when cfg is
\* nil, which ends the process with the runtime's status 2; then the error is
\* returned to main, which logs it and calls os.Exit(1)
NewServer ==
  /\ boot.pc = "setup_returned"
  /\ boot' = IF boot.cfg = "nil"
               THEN [boot EXCEPT !.pc = "exited", !.exit = 2, !.panicked = TRUE]
               ELSE [boot EXCEPT !.pc = "exited", !.exit = 1]
  /\ UNCHANGED <<store, clocks, resp, calls, req, mw, ret, stmt, tasks>>

BootStep == Connect \/ Sleep \/ Ping \/ SetupApplication \/ NewServer

\* ------------------------------------------------------------------ inputs

\* the ids a request may name: every id the sequence hands out and one it
\* never does
Ids == 1..(MaxId + 1)

\* the path parameters of /products/:id: those ids, a negative number,
\* parameters that are no number (a letter, a digit and a letter, a sign
\* alone), and 2^63, one past the 64-bit range
PathIds ==
  {<<DigitChars[i + 1]>> : i \in Ids}
  \cup {<<"-", "1">>, <<"x">>, <<"1", "x">>, <<"-">>, MinInt64Digits}

\* the request bodies: every combination of the field values (an empty
\* sku_name left out of the body, an empty expiration sent as ""), and bodies
\* with no sku_code, with an id, with a null, with a sku_amount or a sku_code
\* of the wrong type (and a field breaking a validation rule too), and one
\* that is no JSON
Bodies ==
  {JsonObject(Absent, JStr(c), IF n = "" THEN Absent ELSE JStr(n), JNum(a), JStr(e)) :
     c \in SkuCodes, n \in SkuNames, a \in Amounts, e \in Expirations}
  \cup {JsonObject(Absent, Absent, JStr("n1"), JNum(a), Absent) : a \in Amounts}
  \cup {JsonObject(JNum(i), JStr("c1"), Absent, JNum(0), JStr("")) : i \in Ids}
  \cup {JsonObject(Absent, JStr("c1"), JNull, JNum(0), JStr("")),
        JsonObject(Absent, JStr("c1"), JStr("n1"), JStr("1"), Absent),
        JsonObject(Absent, JStr(""), JStr("n1"), JStr("1"), Absent),
        JsonObject(Absent, JNum(1), JStr("n1"), JNum(0 - 1), Absent),
        Malformed}

\* the path parameters and the bodies the requests of the model carry: a few
\* of each kind the handlers tell apart.  The paths: every id, and one that is
\* no number.
ServedPaths == {<<DigitChars[i + 1]>> : i \in Ids} \cup {<<"x">>}

\* a body that leaves sku_amount out
NoAmountBody == JsonObject(Absent, JStr("c2"), Absent, Absent, Absent)

\* The bodies: two that pass validation, one with every field and one with
\* neither sku_name nor expiration;
FullBody == JsonObject(Absent, JStr("c1"), JStr("n1"), JNum(1), JStr("e1"))
SparseBody == JsonObject(Absent, JStr("c1"), Absent, JNum(0), JStr(""))
\* one with an id of the caller's, one with an empty sku_code, one with a
\* negative sku_amount, and one that is no JSON
ServedBodies ==
  {FullBody, SparseBody,
   JsonObject(JNum(1), JStr("c1"), Absent, JNum(0), JStr("")),
   JsonObject(Absent, JStr(""), JStr("n1"), JNum(1), JStr("e1")),
   JsonObject(Absent, JStr("c1"), JStr("n1"), JNum(0 - 1), JStr("e1")),
   Malformed}

\* the products a body binds to: the inputs the service and the repository see
Inputs == {ShouldBindJSON(raw).input : raw \in {b \in Bodies : ShouldBindJSON(b).ok}}
ServedInputs == {ShouldBindJSON(raw).input : raw \in {b \in ServedBodies : ShouldBindJSON(b).ok}}

\* ----------------------------------------------------------- specification

\* the requests the server handles, one at a time, in any order, none with
\* an X-Request-ID header; no clock advances
NoHeader == ""

Next ==
  \/ GetProducts(NoHeader)
  \/ \E s \in ServedPaths : GetProduct(NoHeader, s)
  \/ \E raw \in ServedBodies : CreateProduct(NoHeader, raw)
  \/ \E s \in ServedPaths, raw \in ServedBodies : UpdateProduct(NoHeader, s, raw)
  \/ \E s \in ServedPaths : DeleteProduct(NoHeader, s)

Spec == Init /\ [][Next]_vars

\* the same server while the two clocks advance, each on its own; the
\* requests carry one body and name an id
ClockPaths == {<<DigitChars[i + 1]>> : i \in Ids}

NextClock ==
  \/ TickDB
  \/ TickApp
  \/ CreateProduct(NoHeader, FullBody)
  \/ \E s \in ClockPaths : UpdateProduct(NoHeader, s, FullBody)
  \/ \E s \in ClockPaths : DeleteProduct(NoHeader, s)

SpecClock == Init /\ [][NextClock]_vars

\* the server handling requests with and without an X-Request-ID header:
\* every route, a body that passes validation, one that does not and one
\* that is no JSON
TraceBodies ==
  {FullBody, JsonObject(Absent, JStr("c1"), JStr("n1"), JNum(0 - 1), JStr("e1")), Malformed}

NextTrace ==
  \E hdr \in RequestIds :
    \/ GetProducts(hdr)
    \/ \E s \in ServedPaths : GetProduct(hdr, s)
    \/ \E raw \in TraceBodies : CreateProduct(hdr, raw)
    \/ \E s \in ServedPaths, raw \in TraceBodies : UpdateProduct(hdr, s, raw)
    \/ \E s \in ServedPaths : DeleteProduct(hdr, s)

SpecTrace == Init /\ [][NextTrace]_vars

\* the process from the start of main: the bootstrap, and once router.Run
\* serves, the requests; main's goroutine runs on as long as it can
InitBoot ==
  /\ rows = {}
  /\ nextId = 1
  /\ dbNow = 0
  /\ appNow = 0
  /\ resp = NoResponse
  /\ calls = <<>>
  /\ req = NoRequest
  /\ mw = NoLog
  /\ ret = NoReturn
  /\ stmt = NoStmt
  /\ tasks = NoTasks
  /\ boot = Starting

NextBoot ==
  \/ Connect
  \/ Sleep
  \/ Ping
  \/ SetupApplication
  \/ NewServer
  \/ GetProducts(NoHeader)
  \/ \E s \in ServedPaths : GetProduct(NoHeader, s)
  \/ \E raw \in TraceBodies : CreateProduct(NoHeader, raw)
  \/ \E s \in ServedPaths, raw \in TraceBodies : UpdateProduct(NoHeader, s, raw)
  \/ \E s \in ServedPaths : DeleteProduct(NoHeader, s)

SpecBoot == InitBoot /\ [][NextBoot]_vars /\ WF_vars(BootStep)

\* the repository by itself, its operations called directly with any id and
\* with inputs nothing has validated, the driver running the statement or
\* failing it
RepoInputs ==
  {ShouldBindJSON(FullBody).input, ShouldBindJSON(SparseBody).input,
   [ShouldBindJSON(SparseBody).input EXCEPT !.sku_code = "", !.sku_amount = 0 - 1]}

Returned(op, id, product, err) ==
  /\ ret' = [op |-> op, id |-> id, product |-> product, err |-> err]
  /\ UNCHANGED <<clocks, resp, calls, req, mw, stmt, tasks, boot>>

RepoGetAll ==
  \E f \in ServedFaults : \E r \in {GetAll(rows, f)} :
    /\ Returned("GetAll", 0, ZeroProduct, r.err)
    /\ UNCHANGED store

RepoGetByID(id) ==
  \E f \in ServedFaults : \E r \in {GetByID(rows, id, f)} :
    /\ Returned("GetByID", id, r.product, r.err)
    /\ UNCHANGED store

RepoCreate(input) ==
  /\ nextId <= MaxId
  /\ \E f \in ServedFaults : \E r \in {Create(rows, nextId, dbNow, input, f)} :
       /\ Returned("Create", 0, r.product, r.err)
       /\ rows' = r.tbl
       /\ nextId' = r.seq

RepoUpdateNonBlank(id, input) ==
  \E f \in ServedFaults : \E r \in {UpdateNonBlank(rows, id, input, appNow, f)} :
    /\ Returned("UpdateNonBlank", id, r.product, r.err)
    /\ rows' = r.tbl
    /\ UNCHANGED nextId

RepoDelete(id) ==
  \E f \in ServedFaults : \E r \in {Delete(rows, id, f)} :
    /\ Returned("Delete", id, ZeroProduct, r.err)
    /\ rows' = r.tbl
    /\ UNCHANGED nextId

NextRepo ==
  \/ RepoGetAll
  \/ \E id \in Ids : RepoGetByID(id)
  \/ \E input \in RepoInputs : RepoCreate(input)
  \/ \E id \in Ids, input \in RepoInputs : RepoUpdateNonBlank(id, input)
  \/ \E id \in Ids : RepoDelete(id)

SpecRepo == Init /\ [][NextRepo]_vars

\* two goroutines calling UpdateProduct and DeleteProduct of the service side
\* by side on one table: each repository call is one statement and one step,
\* and the steps of the two calls interleave in any order.  The driver runs
\* every statement.  A call begins:
TaskInput == ShouldBindJSON(SparseBody).input

Begin(g, op, id) ==
  /\ tasks[g].pc \in {"idle", "done"}
  /\ tasks' = [tasks EXCEPT ![g] = [pc |-> "check", op |-> op, id |-> id,
                                     sawRow |-> FALSE, lost |-> FALSE, err |-> NoErr]]
  /\ UNCHANGED <<store, clocks, resp, calls, req, mw, ret, stmt, boot>>

\* s.repo.GetByID(id): on an error the call returns it, otherwise it goes on
TaskCheck(g) ==
  /\ tasks[g].pc = "check"
  /\ LET chk == GetByID(rows, tasks[g].id, NoErr)
     IN tasks' = [tasks EXCEPT ![g] =
                    IF chk.err # NoErr THEN [@ EXCEPT !.pc = "done", !.err = chk.err]
                    ELSE [@ EXCEPT !.pc = "act", !.sawRow = TRUE]]
  /\ UNCHANGED <<store, clocks, resp, calls, req, mw, ret, stmt, boot>>

\* return s.repo.UpdateNonBlank(id, input)
TaskUpdate(g) ==
  /\ tasks[g].pc = "act"
  /\ tasks[g].op = "UpdateProduct"
  /\ LET upd == UpdateNonBlank(rows, tasks[g].id, TaskInput, appNow, NoErr)
     IN /\ rows' = upd.tbl
        /\ tasks' = [tasks EXCEPT ![g] = [@ EXCEPT !.pc = "done", !.err = upd.err]]
  /\ UNCHANGED <<nextId, clocks, resp, calls, req, mw, ret, stmt, boot>>

\* return s.repo.Delete(id); a call past its check of the same id is marked
\* as having lost its row when the row goes
TaskDelete(g) ==
  /\ tasks[g].pc = "act"
  /\ tasks[g].op = "DeleteProduct"
  /\ LET del == Delete(rows, tasks[g].id, NoErr)
     IN /\ rows' = del.tbl
        /\ tasks' = [h \in Callers |->
                       IF h = g THEN [tasks[g] EXCEPT !.pc = "done", !.err = del.err]
                       ELSE IF /\ tasks[h].pc = "act" /\ tasks[h].id = tasks[g].id
                               /\ del.tbl # rows
                         THEN [tasks[h] EXCEPT !.lost = TRUE]
                       ELSE tasks[h]]
  /\ UNCHANGED <<nextId, clocks, resp, calls, req, mw, ret, stmt, boot>>

NextConc ==
  \/ RepoCreate(ShouldBindJSON(FullBody).input)
  \/ \E g \in Callers, op \in {"UpdateProduct", "DeleteProduct"}, id \in 1..MaxId : Begin(g, op, id)
  \/ \E g \in Callers : TaskCheck(g)
  \/ \E g \in Callers : TaskUpdate(g)
  \/ \E g \in Callers : TaskDelete(g)

SpecConc == Init /\ [][NextConc]_vars

\* the statement builder of UpdateNonBlank by itself: called with any id, any
\* product a body binds to and any clock value, it builds its statement
InitBuild ==
  /\ rows = {}
  /\ nextId = 1
  /\ dbNow = 0
  /\ appNow = 0
  /\ resp = NoResponse
  /\ calls = <<>>
  /\ req = NoRequest
  /\ mw = NoLog
  /\ ret = NoReturn
  /\ tasks = NoTasks
  /\ boot = Serving
  /\ stmt \in {[phase |-> "args", id |-> id, input |-> input, now |-> now, q |-> NoQuery] :
                 id \in Ids, input \in Inputs, now \in 0..MaxTime}

BuildStatement ==
  /\ stmt.phase = "args"
  /\ stmt' = [stmt EXCEPT !.phase = "built",
                          !.q = BuildUpdate(stmt.id, stmt.input, stmt.now)]
  /\ UNCHANGED <<store, clocks, resp, calls, req, mw, ret, tasks, boot>>

NextBuild == BuildStatement

SpecBuild == InitBuild /\ [][NextBuild]_vars

\* ================================================================= claims

\* a row of the table has this id
Stored(id) == \E r \in rows : r.id = id

\* the calls of a sequence of calls
Made(cs) == {cs[i] : i \in 1..Len(cs)}

\* the repository operations that write
MutatingCalls == {"repo.Create", "repo.UpdateNonBlank", "repo.Delete"}

\* the ids a service call may be given: those of Ids, zero and a negative one
ServiceIds == Ids \cup {0, 0 - 1}

UpdateCalls == <<"service.UpdateProduct", "repo.GetByID", "repo.UpdateNonBlank">>

\* C1: for every id no row of the table has, whatever the input and whatever
\* the driver does, UpdateProduct and DeleteProduct of the service never call
\* the repository's UpdateNonBlank or Delete and leave the table as it is; and
\* when the existence check's query runs (the driver reports no error for it)
\* they return ErrProductNotFound after the one call of GetByID.
C1_ExistenceGuard ==
  \A id \in ServiceIds :
    ~Stored(id) =>
      /\ \A input \in ServedInputs, fs \in FaultPlans :
           LET u == SvcUpdateProduct(rows, id, input, appNow, fs)
           IN /\ Made(u.calls) \cap MutatingCalls = {}
              /\ u.tbl = rows
              /\ fs[1] = NoErr => u.err = ErrProductNotFound /\ u.calls = <<"repo.GetByID">>
      /\ \A fs \in FaultPlans :
           LET d == SvcDeleteProduct(rows, id, fs)
           IN /\ Made(d.calls) \cap MutatingCalls = {}
              /\ d.tbl = rows
              /\ fs[1] = NoErr => d.err = ErrProductNotFound /\ d.calls = <<"repo.GetByID">>

\* an update answered 404 after the existence check alone
C1_Witness ==
  /\ req.route = "PUT /products/:id"
  /\ ~Stored(ParseInt(req.id).n)
  /\ resp.status = 404
  /\ resp.code = "PRODUCT_NOT_FOUND"
  /\ calls = <<"service.UpdateProduct", "repo.GetByID">>

\* the body carries no sku_code or an empty one, or a negative sku_amount
BreaksRule(raw) ==
  \/ "sku_code" \notin DOMAIN raw.obj
  \/ raw.obj["sku_code"].t = "null"
  \/ raw.obj["sku_code"] = JStr("")
  \/ ("sku_amount" \in DOMAIN raw.obj /\ raw.obj["sku_amount"].t = "number"
        /\ raw.obj["sku_amount"].n < 0)

\* C2: a POST /products whose body binds, and a PUT /products/:id whose path
\* id parses and whose body binds, is answered 400 PRODUCT_VALIDATION_ERROR
\* when the sku_code is empty or omitted or the sku_amount is negative; the
\* handler makes no call of the service and the table and the sequence stay as
\* they are.
C2_ValidationRejects ==
  \A raw \in Bodies :
    (ShouldBindJSON(raw).ok /\ BreaksRule(raw)) =>
      /\ LET o == HandleCreateProduct(rows, nextId, dbNow, "", raw, NoErr)
         IN /\ o.resp.status = 400
            /\ o.resp.code = "PRODUCT_VALIDATION_ERROR"
            /\ o.resp.msg \in {"MsgSkuCodeEmpty", "MsgSkuAmountNegative"}
            /\ o.calls = <<>>
            /\ o.tbl = rows /\ o.seq = nextId
      /\ \A s \in PathIds :
           ParseInt(s).ok =>
             LET o == HandleUpdateProduct(rows, nextId, appNow, "", s, raw, NoFaults)
             IN /\ o.resp.status = 400
                /\ o.resp.code = "PRODUCT_VALIDATION_ERROR"
                /\ o.resp.msg \in {"MsgSkuCodeEmpty", "MsgSkuAmountNegative"}
                /\ o.calls = <<>>
                /\ o.tbl = rows /\ o.seq = nextId

\* an update of a stored id with a negative sku_amount answered 400 with no
\* call made
C2_Witness ==
  /\ req.route = "PUT /products/:id"
  /\ Stored(ParseInt(req.id).n)
  /\ resp.status = 400
  /\ resp.code = "PRODUCT_VALIDATION_ERROR"
  /\ resp.msg = "MsgSkuAmountNegative"
  /\ calls = <<>>

\* C3: for every row of the table and every input whose sku_name and
\* expiration are blank and whose sku_code is not, a successful update of the
\* row changes its sku_code and sku_amount to the input's and its update_at to
\* the application's clock, and nothing else: sku_name, expiration, id and
\* create_at stay, and so does every other row.
C3_PartialUpdateFrame ==
  \A r \in rows : \A input \in Inputs :
    (input.sku_name = "" /\ input.expiration = "" /\ input.sku_code # "") =>
      LET u == SvcUpdateProduct(rows, r.id, input, appNow, NoFaults)
      IN /\ u.err = NoErr
         /\ u.tbl = (rows \ {r}) \cup
                      {[r EXCEPT !.sku_code = input.sku_code,
                                 !.sku_amount = input.sku_amount,
                                 !.update_at = appNow]}

\* a row created with a sku_name and an expiration and then updated by the
\* body that gives neither: it has the body's sku_amount and its own sku_name
\* and expiration
C3_Witness ==
  /\ req.route = "PUT /products/:id"
  /\ resp.status = 200
  /\ calls = UpdateCalls
  /\ \E r \in rows :
       /\ r.id = ParseInt(req.id).n
       /\ r.sku_name = "n1" /\ r.expiration = "e1" /\ r.sku_amount = 0

\* C4: deleting a stored id succeeds and removes its row and no other;
\* deleting it again, then or at any later time (the sequence never hands the
\* id out again), returns ErrProductNotFound and changes nothing.
C4_DeleteTwice ==
  /\ \A r \in rows :
       LET d1 == SvcDeleteProduct(rows, r.id, NoFaults)
           d2 == SvcDeleteProduct(d1.tbl, r.id, NoFaults)
       IN /\ d1.err = NoErr
          /\ d1.tbl = rows \ {r}
          /\ d2.err = ErrProductNotFound
          /\ d2.tbl = d1.tbl
  /\ \A id \in 1..(nextId - 1) :
       ~Stored(id) =>
         LET d == SvcDeleteProduct(rows, id, NoFaults)
         IN d.err = ErrProductNotFound /\ d.tbl = rows

\* a delete of an id handed out and deleted before, answered 404
C4_Witness ==
  /\ req.route = "DELETE /products/:id"
  /\ ParseInt(req.id).n \in 1..(nextId - 1)
  /\ ~Stored(ParseInt(req.id).n)
  /\ resp.status = 404
  /\ calls = <<"service.DeleteProduct", "repo.GetByID">>

\* C5: for every input that passes validation, a Create that succeeds
\* followed at once by GetByID of the id it returned finds a product with the
\* input's sku_code, sku_name, sku_amount and expiration.
C5_CreateThenGet ==
  \A input \in Inputs :
    validateProduct(input) = NoErr =>
      LET c == Create(rows, nextId, dbNow, input, NoErr)
          g == GetByID(c.tbl, c.product.id, NoErr)
      IN /\ c.err = NoErr
         /\ g.err = NoErr
         /\ g.product.sku_code = input.sku_code
         /\ g.product.sku_name = input.sku_name
         /\ g.product.sku_amount = input.sku_amount
         /\ g.product.expiration = input.expiration

\* the product created last, as created, found by a GET of its id
C5_Witness ==
  /\ req.route = "GET /products/:id"
  /\ ParseInt(req.id).n = nextId - 1
  /\ resp.status = 200
  /\ calls = <<"service.GetProduct", "repo.GetByID">>
  /\ \E r \in rows :
       /\ r.id = nextId - 1
       /\ r.sku_name = "n1" /\ r.expiration = "e1" /\ r.sku_amount = 1

\* C6: no row of the table has a negative sku_amount.
C6_NoNegativeAmount == \A r \in rows : r.sku_amount >= 0

\* a table of rows written by creates and by an update, an update with a
\* negative sku_amount just turned away
C6_Witness ==
  /\ req.route = "PUT /products/:id"
  /\ resp.code = "PRODUCT_VALIDATION_ERROR"
  /\ resp.msg = "MsgSkuAmountNegative"
  /\ \E r \in rows : r.sku_name = "n1" /\ r.sku_amount = 0
  /\ \E r \in rows : r.sku_amount = 1

\* C7: no two rows of the table share an id; every id is one the sequence has
\* handed out; and the row a POST /products inserts has the sequence's next
\* value as its id, whatever id the body carries.
C7_IdsUniqueAndStoreAssigned ==
  /\ \A r1, r2 \in rows : r1.id = r2.id => r1 = r2
  /\ \A r \in rows : r.id \in 1..(nextId - 1)
  /\ \A raw \in Bodies :
       (ShouldBindJSON(raw).ok /\ ~BreaksRule(raw)) =>
         LET o == HandleCreateProduct(rows, nextId, dbNow, "", raw, NoErr)
         IN /\ o.resp.status = 201
            /\ rows \subseteq o.tbl
            /\ \E r \in o.tbl : o.tbl \ rows = {r} /\ r.id = nextId
            /\ o.seq = nextId + 1

\* two rows in the table, the second just created
C7_Witness ==
  /\ req.route = "POST /products"
  /\ resp.status = 201
  /\ Cardinality(rows) = 2
  /\ Stored(nextId - 1)

\* C8: every row of the table has update_at >= create_at.
C8_UpdateAtNotBeforeCreateAt == \A r \in rows : r.update_at >= r.create_at

\* C10: GetAll returns no error and every row of the table exactly once, in
\* ascending id order; from the empty table it returns the empty sequence.
C10_GetAllOrdered ==
  LET g == GetAll(rows, NoErr)
      n == Len(g.products)
  IN /\ g.err = NoErr
     /\ n = Cardinality(rows)
     /\ \A r \in rows :
          \E i \in 1..n :
            /\ g.products[i].id = r.id
            /\ g.products[i].sku_code = r.sku_code
            /\ g.products[i].sku_name = r.sku_name
            /\ g.products[i].sku_amount = r.sku_amount
            /\ g.products[i].expiration = r.expiration
            /\ \A j \in 1..n : g.products[j].id = r.id => j = i
     /\ \A i, j \in 1..n : i < j => g.products[i].id < g.products[j].id
     /\ rows = {} => g.products = <<>>

\* a list of two products just served
C10_Witness ==
  /\ req.route = "GET /products"
  /\ resp.status = 200
  /\ calls = <<"service.GetProducts", "repo.GetAll">>
  /\ Cardinality(rows) = 2

\* C11: GetByID returns, with no error, the product of the row with the id
\* when the table has one; it returns ErrProductNotFound exactly when the
\* query ran and matched no row; and when the driver fails the query it
\* returns the driver's error, which is not ErrProductNotFound, whether the
\* row exists or not.
C11_GetByIDContract ==
  \A id \in ServiceIds, f \in Faults :
    LET g == GetByID(rows, id, f)
        m == {r \in rows : r.id = id}
    IN /\ (f = NoErr /\ m # {}) =>
            /\ g.err = NoErr
            /\ \E r \in m :
                 /\ g.product.id = id
                 /\ g.product.sku_code = r.sku_code
                 /\ g.product.sku_name = r.sku_name
                 /\ g.product.sku_amount = r.sku_amount
                 /\ g.product.expiration = r.expiration
                 /\ g.product.create_at = FormatTime(r.create_at)
                 /\ g.product.update_at = FormatTime(r.update_at)
       /\ (g.err = ErrProductNotFound) <=> (f = NoErr /\ m = {})
       /\ f # NoErr => g.err = f /\ g.err # ErrProductNotFound /\ g.product = ZeroProduct

\* GetByID of a stored id failed by the driver
C11_Witness ==
  /\ ret.op = "GetByID"
  /\ Stored(ret.id)
  /\ ret.err \in StoreErrs

\* C12: Create, when the driver runs the INSERT, adds exactly one row, with
\* the input's sku_code, sku_name, sku_amount and expiration and the
\* sequence's next value as id, and returns that row's id and four fields
\* with create_at and update_at left empty; when the driver fails the
\* INSERT it returns the zero product and the driver's error and the table
\* is as it was.
C12_CreateContract ==
  \A input \in Inputs, f \in Faults :
    LET c == Create(rows, nextId, dbNow, input, f)
    IN /\ f = NoErr =>
            /\ c.err = NoErr
            /\ rows \subseteq c.tbl
            /\ \E r \in c.tbl :
                 /\ c.tbl \ rows = {r}
                 /\ r.id = nextId
                 /\ r.sku_code = input.sku_code
                 /\ r.sku_name = input.sku_name
                 /\ r.sku_amount = input.sku_amount
                 /\ r.expiration = input.expiration
                 /\ c.product = [ZeroProduct EXCEPT !.id = r.id,
                                                    !.sku_code = r.sku_code,
                                                    !.sku_name = r.sku_name,
                                                    !.sku_amount = r.sku_amount,
                                                    !.expiration = r.expiration]
       /\ f # NoErr => c.product = ZeroProduct /\ c.err = f /\ c.tbl = rows

\* a Create that returned the row it added, without timestamps
C12_Witness ==
  /\ ret.op = "Create"
  /\ ret.err = NoErr
  /\ ret.product.id = nextId - 1
  /\ ret.product.create_at = NoTime
  /\ \E r \in rows : r.id = ret.product.id /\ r.sku_name = ret.product.sku_name

\* C13: UpdateNonBlank of an id no row has, the driver running the
\* statement, returns ErrProductNotFound, which is no store error, and
\* leaves the table as it was.
C13_UpdateNonBlankNotFound ==
  \A id \in ServiceIds :
    ~Stored(id) =>
      \A input \in Inputs :
        LET u == UpdateNonBlank(rows, id, input, appNow, NoErr)
        IN /\ u.err = ErrProductNotFound
           /\ u.err \notin StoreErrs \cup {ErrNoRows}
           /\ u.product = ZeroProduct
           /\ u.tbl = rows

\* UpdateNonBlank called for an id no row has, other rows in the table
C13_Witness ==
  /\ ret.op = "UpdateNonBlank"
  /\ ~Stored(ret.id)
  /\ ret.err = ErrProductNotFound
  /\ rows # {}

\* C14: Delete, the driver running the statement, removes the row with the
\* id and returns no error when there is one, returns ErrProductNotFound
\* when there is none; whatever the driver does, no row with another id
\* leaves the table and none enters.
C14_DeleteContract ==
  \A id \in ServiceIds :
    /\ LET d == Delete(rows, id, NoErr)
       IN /\ Stored(id) => d.err = NoErr /\ d.tbl = {r \in rows : r.id # id}
          /\ ~Stored(id) => d.err = ErrProductNotFound /\ d.tbl = rows
    /\ \A f \in Faults :
         LET d == Delete(rows, id, f)
         IN {r \in rows : r.id # id} \subseteq d.tbl /\ d.tbl \subseteq rows

\* a Delete that removed its row and left another
C14_Witness ==
  /\ ret.op = "Delete"
  /\ ret.err = NoErr
  /\ ~Stored(ret.id)
  /\ rows # {}

\* the path parameters that parse, and the bodies of the model that pass
\* binding and validation
ParsedPaths == {s \in PathIds : ParseInt(s).ok}
ValidServedBodies ==
  {raw \in ServedBodies : ShouldBindJSON(raw).ok /\ ~BreaksRule(raw)}

NotFound404(response, hdr) ==
  /\ response.status = 404
  /\ response.code = "PRODUCT_NOT_FOUND"
  /\ response.msg = "MsgProductNotFound"
  /\ response.request_id = hdr

\* C15: whenever the service returns ErrProductNotFound to the GetProduct,
\* UpdateProduct or DeleteProduct handler, for any path id that parses, any
\* accepted body, any X-Request-ID and any driver behaviour, the response is
\* 404 PRODUCT_NOT_FOUND.
C15_NotFoundIs404 ==
  \A hdr \in RequestIds, s \in ParsedPaths :
    LET id == ParseInt(s).n
    IN /\ \A f \in Faults :
            SvcGetProduct(rows, id, f).err = ErrProductNotFound =>
              NotFound404(HandleGetProduct(rows, nextId, hdr, s, f).resp, hdr)
       /\ \A fs \in FaultPlans :
            /\ SvcDeleteProduct(rows, id, fs).err = ErrProductNotFound =>
                 NotFound404(HandleDeleteProduct(rows, nextId, hdr, s, fs).resp, hdr)
            /\ \A raw \in ValidServedBodies :
                 SvcUpdateProduct(rows, id, ShouldBindJSON(raw).input, appNow, fs).err
                     = ErrProductNotFound =>
                   NotFound404(HandleUpdateProduct(rows, nextId, appNow, hdr, s, raw, fs).resp, hdr)

\* a GET of an id no row has, answered 404 and logged as an error
C15_Witness ==
  /\ req.route = "GET /products/:id"
  /\ ~Stored(ParseInt(req.id).n)
  /\ resp.status = 404
  /\ resp.code = "PRODUCT_NOT_FOUND"
  /\ calls = <<"service.GetProduct", "repo.GetByID">>

\* the errors of the service a handler answers with 500
IsStoreFault(err) == err \notin {NoErr, ErrProductNotFound}

Generic500(response, code, msg, hdr) ==
  /\ response = [status |-> 500, code |-> code, msg |-> msg, request_id |-> hdr]
  /\ response.msg \notin StoreErrs

\* C16: whenever the service returns an error other than ErrProductNotFound,
\* the handler answers 500 with the code of its route and a fixed message,
\* so that two store errors with different texts, failing the same statement
\* of the same request, get the same response.
C16_StoreFaultIsGeneric500 ==
  \A hdr \in RequestIds :
    /\ \A f \in Faults :
         /\ IsStoreFault(SvcGetProducts(rows, f).err) =>
              Generic500(HandleGetProducts(rows, nextId, hdr, f).resp,
                         "PRODUCT_FETCH_ERROR", "MsgFetchListFailed", hdr)
         /\ \A raw \in ValidServedBodies :
              IsStoreFault(SvcCreateProduct(rows, nextId, dbNow, ShouldBindJSON(raw).input, f).err) =>
                Generic500(HandleCreateProduct(rows, nextId, dbNow, hdr, raw, f).resp,
                           "PRODUCT_CREATE_ERROR", "MsgCreateFailed", hdr)
         /\ \A s \in ParsedPaths :
              IsStoreFault(SvcGetProduct(rows, ParseInt(s).n, f).err) =>
                Generic500(HandleGetProduct(rows, nextId, hdr, s, f).resp,
                           "PRODUCT_FETCH_ERROR", "MsgFetchFailed", hdr)
    /\ \A fs \in FaultPlans, s \in ParsedPaths :
         /\ IsStoreFault(SvcDeleteProduct(rows, ParseInt(s).n, fs).err) =>
              Generic500(HandleDeleteProduct(rows, nextId, hdr, s, fs).resp,
                         "PRODUCT_DELETE_ERROR", "MsgDeleteFailed", hdr)
         /\ \A raw \in ValidServedBodies :
              IsStoreFault(SvcUpdateProduct(rows, ParseInt(s).n, ShouldBindJSON(raw).input,
                                            appNow, fs).err) =>
                Generic500(HandleUpdateProduct(rows, nextId, appNow, hdr, s, raw, fs).resp,
                           "PRODUCT_UPDATE_ERROR", "MsgUpdateFailed", hdr)
    /\ \A e1, e2 \in StoreErrs :
         /\ HandleGetProducts(rows, nextId, hdr, e1).resp
              = HandleGetProducts(rows, nextId, hdr, e2).resp
         /\ HandleCreateProduct(rows, nextId, dbNow, hdr, FullBody, e1).resp
              = HandleCreateProduct(rows, nextId, dbNow, hdr, FullBody, e2).resp
         /\ \A s \in ParsedPaths :
              /\ HandleGetProduct(rows, nextId, hdr, s, e1).resp
                   = HandleGetProduct(rows, nextId, hdr, s, e2).resp
              /\ HandleUpdateProduct(rows, nextId, appNow, hdr, s, FullBody, <<NoErr, e1>>).resp
                   = HandleUpdateProduct(rows, nextId, appNow, hdr, s, FullBody, <<NoErr, e2>>).resp
              /\ HandleDeleteProduct(rows, nextId, hdr, s, <<e1, NoErr>>).resp
                   = HandleDeleteProduct(rows, nextId, hdr, s, <<e2, NoErr>>).resp

\* an update whose UPDATE statement the driver failed, answered 500
C16_Witness ==
  /\ req.route = "PUT /products/:id"
  /\ calls = UpdateCalls
  /\ resp.status = 500
  /\ resp.code = "PRODUCT_UPDATE_ERROR"
  /\ resp.msg = "MsgUpdateFailed"

\* the log entry holds the text
Mentions(entry, text) ==
  text \in {entry.level, entry.request_id, entry.error_response.code,
            entry.error_response.msg, entry.error_response.request_id}

\* C17: a request answered 500, which only a store fault brings about, has
\* the text of a store error in the entry logged for it.
C17_StoreFaultLogged ==
  resp.status = 500 => \E e \in StoreErrs : Mentions(mw.log, e)

\* the path ids of the model that are no base-10 64-bit integer: a letter, a
\* digit and a letter, a sign alone, and 2^63
NotInt64 == {<<"x">>, <<"1", "x">>, <<"-">>, MinInt64Digits}

\* C18: GET, PUT and DELETE /products/:id with a path id that does not parse
\* as a base-10 64-bit integer are answered 400 INVALID_PRODUCT_ID with no
\* call of the service and the table as it was; on PUT whatever the body is:
\* valid, breaking a validation rule, of the wrong type, or no JSON.
C18_InvalidIdRejected ==
  \A s \in NotInt64 :
    LET bad(o) == /\ o.resp.status = 400
                  /\ o.resp.code = "INVALID_PRODUCT_ID"
                  /\ o.calls = <<>>
                  /\ o.tbl = rows /\ o.seq = nextId
    IN /\ bad(HandleGetProduct(rows, nextId, NoHeader, s, NoErr))
       /\ bad(HandleDeleteProduct(rows, nextId, NoHeader, s, NoFaults))
       /\ \A raw \in Bodies : bad(HandleUpdateProduct(rows, nextId, appNow, NoHeader, s, raw, NoFaults))

\* a PUT with a path id that is no number turned away
C18_Witness ==
  /\ req.route = "PUT /products/:id"
  /\ ~ParseInt(req.id).ok
  /\ resp.status = 400
  /\ resp.code = "INVALID_PRODUCT_ID"
  /\ calls = <<>>

\* the body is no JSON, or gives a field a value of another type than the
\* field's
Unparsable(raw) ==
  \/ ~raw.wellformed
  \/ \E k \in DOMAIN raw.obj :
       raw.obj[k].t \notin {"null", IF k \in {"id", "sku_amount"} THEN "number" ELSE "string"}

\* C19: POST /products, and PUT /products/:id with a path id that parses,
\* with a body that cannot be parsed into a Product are answered 400
\* INVALID_REQUEST_DATA with no call of the service and the table as it was,
\* also when a field of the body breaks a validation rule.
C19_UnparsableBodyRejected ==
  \A raw \in Bodies :
    Unparsable(raw) =>
      LET bad(o) == /\ o.resp.status = 400
                    /\ o.resp.code = "INVALID_REQUEST_DATA"
                    /\ o.calls = <<>>
                    /\ o.tbl = rows /\ o.seq = nextId
      IN /\ bad(HandleCreateProduct(rows, nextId, dbNow, NoHeader, raw, NoErr))
         /\ \A s \in ParsedPaths :
              bad(HandleUpdateProduct(rows, nextId, appNow, NoHeader, s, raw, NoFaults))

\* a POST with a body that is no JSON turned away, rows in the table
C19_Witness ==
  /\ req.route = "POST /products"
  /\ resp.status = 400
  /\ resp.code = "INVALID_REQUEST_DATA"
  /\ calls = <<>>
  /\ rows # {}

\* C20: the request_id of every error response is the X-Request-ID header of
\* the request, empty when the request has none: for every route, request
\* and driver behaviour, and in the response of the request handled last,
\* where the middleware generated an id of its own when the header was absent.
C20_RequestIdEchoed ==
  /\ resp.status >= 400 => resp.request_id = req.hdr /\ resp.request_id # GeneratedID
  /\ \A hdr \in RequestIds :
       LET echo(o) == o.resp.status >= 400 => o.resp.request_id = hdr
       IN /\ \A f \in ServedFaults :
               /\ echo(HandleGetProducts(rows, nextId, hdr, f))
               /\ \A s \in ServedPaths : echo(HandleGetProduct(rows, nextId, hdr, s, f))
               /\ \A raw \in TraceBodies : echo(HandleCreateProduct(rows, nextId, dbNow, hdr, raw, f))
          /\ \A fs \in ServedPlans, s \in ServedPaths :
               /\ echo(HandleDeleteProduct(rows, nextId, hdr, s, fs))
               /\ \A raw \in TraceBodies :
                    echo(HandleUpdateProduct(rows, nextId, appNow, hdr, s, raw, fs))

\* an error response without request_id to a request without X-Request-ID,
\* logged under the id the middleware generated
C20_Witness ==
  /\ resp.status >= 400
  /\ req.hdr = ""
  /\ resp.request_id = ""
  /\ mw.log.request_id = GeneratedID
  /\ mw.header = GeneratedID


\* the step is PUT /products/:id answered 200: a successful update
UpdateSucceeded ==
  /\ req'.route = "PUT /products/:id"
  /\ resp'.status = 200
  /\ calls' = UpdateCalls
  /\ UNCHANGED clocks

\* C21: no step changes the create_at of a row that stays in the table, and
\* a successful update keeps the ids of the table and the number of its rows
\* and sets the update_at of its row to the application's clock: through any
\* sequence of updates a row keeps the id and the create_at of its insertion.
C21_UpdateKeepsIdAndCreateAt ==
  [][/\ \A r \in rows, r2 \in rows' : r2.id = r.id => r2.create_at = r.create_at
     /\ UpdateSucceeded =>
          /\ {r.id : r \in rows'} = {r.id : r \in rows}
          /\ Cardinality(rows') = Cardinality(rows)
          /\ \A r2 \in rows' :
               r2.id = ParseInt(req'.id).n => r2.update_at = appNow]_vars

\* a row updated when the application's clock had passed the time of its
\* insertion
C21_Witness ==
  /\ req.route = "PUT /products/:id"
  /\ resp.status = 200
  /\ \E r \in rows : r.id = ParseInt(req.id).n /\ r.create_at = 0 /\ r.update_at = MaxTime

\* C22: a successful UpdateNonBlank sets the row's sku_amount to the input's,
\* whatever the input's strings are; so does a PUT whose body leaves
\* sku_amount out, the field binding to 0.
C22_AmountAlwaysOverwritten ==
  \A r \in rows :
    /\ \A input \in Inputs :
         LET u == UpdateNonBlank(rows, r.id, input, appNow, NoErr)
         IN u.err = NoErr =>
              /\ u.product.sku_amount = input.sku_amount
              /\ \A r2 \in u.tbl : r2.id = r.id => r2.sku_amount = input.sku_amount
    /\ LET o == HandleUpdateProduct(rows, nextId, appNow, NoHeader, <<DigitChars[r.id + 1]>>,
                                    NoAmountBody, NoFaults)
       IN /\ o.resp.status = 200
          /\ \A r2 \in o.tbl : r2.id = r.id => r2.sku_amount = 0

\* a row inserted with sku_name n1 and sku_amount 1, then updated by an input
\* with a blank sku_name and sku_amount 0: the name stayed, the amount did not
C22_Witness ==
  /\ ret.op = "UpdateNonBlank"
  /\ ret.err = NoErr
  /\ ret.product.sku_name = "n1"
  /\ ret.product.sku_amount = 0
  /\ \E r \in rows : r.id = ret.id /\ r.sku_amount = 0 /\ r.sku_name = "n1"

\* C23: GetProducts, GetProduct and CreateProduct of the service make the one
\* call of GetAll, GetByID, Create with their own arguments and return what it
\* returned: the value, the error (ErrProductNotFound and the store errors
\* too), and for Create the table it left.
C23_ServicePassThrough ==
  \A f \in Faults :
    /\ LET s == SvcGetProducts(rows, f)
           r == GetAll(rows, f)
       IN s.products = r.products /\ s.err = r.err /\ s.calls = <<"repo.GetAll">>
    /\ \A id \in ServiceIds :
         LET s == SvcGetProduct(rows, id, f)
             r == GetByID(rows, id, f)
         IN s.product = r.product /\ s.err = r.err /\ s.calls = <<"repo.GetByID">>
    /\ \A input \in ServedInputs :
         LET s == SvcCreateProduct(rows, nextId, dbNow, input, f)
             r == Create(rows, nextId, dbNow, input, f)
         IN /\ s.product = r.product /\ s.err = r.err /\ s.calls = <<"repo.Create">>
            /\ s.tbl = r.tbl /\ s.seq = r.seq

\* a GET of a stored id the driver failed: the store error came through the
\* service to the handler
C23_Witness ==
  /\ req.route = "GET /products/:id"
  /\ Stored(ParseInt(req.id).n)
  /\ calls = <<"service.GetProduct", "repo.GetByID">>
  /\ resp.status = 500


\* C27: when the driver fails the query of the existence check, UpdateProduct
\* and DeleteProduct of the service return the driver's error after the one
\* call of GetByID, the table as it was, and the handlers answer 500
\* PRODUCT_UPDATE_ERROR and PRODUCT_DELETE_ERROR; and whatever the id, the
\* input and the driver do, the calls of the service are GetByID alone or
\* GetByID followed by one UpdateNonBlank, respectively one Delete.
C27_CheckFaultStopsAndNoRetry ==
  \A id \in ServiceIds, input \in ServedInputs :
    /\ \A e \in StoreErrs :
         /\ SvcUpdateProduct(rows, id, input, appNow, <<e, NoErr>>)
              = [tbl |-> rows, product |-> ZeroProduct, err |-> e, calls |-> <<"repo.GetByID">>]
         /\ SvcDeleteProduct(rows, id, <<e, NoErr>>)
              = [tbl |-> rows, err |-> e, calls |-> <<"repo.GetByID">>]
    /\ \A fs \in FaultPlans :
         /\ SvcUpdateProduct(rows, id, input, appNow, fs).calls
              \in {<<"repo.GetByID">>, <<"repo.GetByID", "repo.UpdateNonBlank">>}
         /\ SvcDeleteProduct(rows, id, fs).calls
              \in {<<"repo.GetByID">>, <<"repo.GetByID", "repo.Delete">>}
    /\ id \in Ids =>
         \A e \in StoreErrs :
           LET s == <<DigitChars[id + 1]>>
               u == HandleUpdateProduct(rows, nextId, appNow, NoHeader, s, FullBody, <<e, NoErr>>)
               d == HandleDeleteProduct(rows, nextId, NoHeader, s, <<e, NoErr>>)
           IN /\ u.resp.status = 500 /\ u.resp.code = "PRODUCT_UPDATE_ERROR"
              /\ u.calls = <<"service.UpdateProduct", "repo.GetByID">> /\ u.tbl = rows
              /\ d.resp.status = 500 /\ d.resp.code = "PRODUCT_DELETE_ERROR"
              /\ d.calls = <<"service.DeleteProduct", "repo.GetByID">> /\ d.tbl = rows

\* a DELETE of a stored id whose existence check the driver failed: answered
\* 500 after GetByID alone, the row still there
C27_Witness ==
  /\ req.route = "DELETE /products/:id"
  /\ Stored(ParseInt(req.id).n)
  /\ calls = <<"service.DeleteProduct", "repo.GetByID">>
  /\ resp.status = 500
  /\ resp.code = "PRODUCT_DELETE_ERROR"

\* the calls of the service among the calls a request made
ServiceCalls(cs) == {i \in 1..Len(cs) : cs[i] \in {"service.GetProducts", "service.GetProduct",
                       "service.CreateProduct", "service.UpdateProduct", "service.DeleteProduct"}}

\* the one response a handler wrote: the success status with no envelope when
\* ok, an error status with an envelope otherwise; at most one service call
OneResponse(o, success, ok) ==
  /\ o.resp.status = success <=> ok
  /\ o.resp.status = success => o.resp.code = "" /\ o.resp.msg = ""
  /\ o.resp.status # success =>
       o.resp.status \in {400, 404, 500} /\ o.resp.code # "" /\ o.resp.msg # ""
  /\ Cardinality(ServiceCalls(o.calls)) <= 1

\* C28: on every route, for every path id, body and driver behaviour the
\* handler's response is the success status (201 for POST, 200 otherwise)
\* with no error envelope exactly when the path id parsed, the body bound and
\* broke no rule and the service returned no error, and one error envelope
\* with an error status otherwise; the service is called at most once.
C28_OneResponsePerRequest ==
  /\ \A f \in ServedFaults :
       /\ OneResponse(HandleGetProducts(rows, nextId, NoHeader, f), 200,
                      SvcGetProducts(rows, f).err = NoErr)
       /\ \A s \in PathIds :
            OneResponse(HandleGetProduct(rows, nextId, NoHeader, s, f), 200,
                        ParseInt(s).ok /\ SvcGetProduct(rows, ParseInt(s).n, f).err = NoErr)
       /\ \A raw \in ServedBodies :
            OneResponse(HandleCreateProduct(rows, nextId, dbNow, NoHeader, raw, f), 201,
                        /\ ~Unparsable(raw) /\ ~BreaksRule(raw)
                        /\ SvcCreateProduct(rows, nextId, dbNow, ShouldBindJSON(raw).input, f).err = NoErr)
  /\ \A fs \in ServedPlans, s \in PathIds :
       /\ OneResponse(HandleDeleteProduct(rows, nextId, NoHeader, s, fs), 200,
                      ParseInt(s).ok /\ SvcDeleteProduct(rows, ParseInt(s).n, fs).err = NoErr)
       /\ \A raw \in ServedBodies :
            OneResponse(HandleUpdateProduct(rows, nextId, appNow, NoHeader, s, raw, fs), 200,
                        /\ ParseInt(s).ok /\ ~Unparsable(raw) /\ ~BreaksRule(raw)
                        /\ SvcUpdateProduct(rows, ParseInt(s).n, ShouldBindJSON(raw).input,
                                            appNow, fs).err = NoErr)

\* a POST answered 201 after one call of the service
C28_Witness ==
  /\ req.route = "POST /products"
  /\ resp.status = 201
  /\ resp.code = ""
  /\ calls = <<"service.CreateProduct", "repo.Create">>


\* the statuses the handlers answer with
Statuses == {200, 201, 400, 404, 500}

\* C24: every request the serving process handles ends with a response and
\* leaves the process serving, whatever the handler met (a row not found, a
\* validation failure, a malformed input, a store fault); and a serving
\* process can always take a further request.
C24_NoErrorIsFatal ==
  /\ [][boot.pc = "serving" =>
          /\ boot'.pc = "serving" /\ boot'.exit = 0 - 1 /\ ~boot'.panicked
          /\ resp'.status \in Statuses
          /\ mw'.log.status = resp'.status]_vars
  /\ [](boot.pc = "serving" => ENABLED GetProducts(NoHeader))

\* a request the driver failed, answered 500, the process still serving
C24_Witness ==
  /\ boot.pc = "serving"
  /\ boot.attempts > 1
  /\ resp.status = 500
  /\ mw.log.level = "error"

\* C29: NewPostgresDB makes at most maxRetries attempts, another one only
\* when none has connected yet, and has waited once after every failed attempt
\* but the fifth; it returns the handle after a Ping that succeeded, and nil
\* with an error when the fifth attempt failed or the Ping did; and it returns.
C29_ConnectBoundedAndTerminates ==
  /\ [](/\ boot.attempts <= 5
        /\ boot.sleeps <= 4
        /\ boot.pc = "connect" => boot.attempts = boot.sleeps /\ boot.attempts < 5
        /\ boot.pc = "sleep" => boot.attempts = boot.sleeps + 1 /\ boot.attempts < 5
        /\ boot.pc = "ping" => boot.db = Handle /\ boot.sleeps = boot.attempts - 1
        /\ boot.pc \notin {"connect", "sleep", "ping"} =>
             /\ boot.err = NoErr <=> boot.db = Handle
             /\ boot.err = ConnectErr => boot.attempts = 5 /\ boot.sleeps = 4
             /\ boot.err # ConnectErr => boot.sleeps = boot.attempts - 1)
  /\ [][boot'.attempts # boot.attempts =>
          boot.db = NoHandle /\ boot'.attempts = boot.attempts + 1]_vars
  /\ <>(boot.pc \notin {"connect", "sleep", "ping"})

\* NewPostgresDB has returned nil and the error of the fifth attempt after
\* four waits
C29_Witness ==
  /\ boot.pc = "db_returned"
  /\ boot.attempts = 5
  /\ boot.sleeps = 4
  /\ boot.db = NoHandle
  /\ boot.err = ConnectErr

\* C30: a process that ended because the database connection could not be
\* established has served no request and ended with status 1, by main's
\* os.Exit(1) and not by a panic.
C30_ExitsWithStatusOne ==
  (boot.pc = "exited" /\ boot.err # NoErr) =>
    /\ resp = NoResponse
    /\ boot.exit = 1
    /\ ~boot.panicked


\* C25: an UpdateProduct whose row a Delete removed after its check returns
\* ErrProductNotFound, and the row is not in the table again, neither while
\* the update is still to run nor after it.
C25_UpdateAfterConcurrentDelete ==
  \A g \in Callers :
    (tasks[g].op = "UpdateProduct" /\ tasks[g].lost) =>
      /\ ~Stored(tasks[g].id)
      /\ tasks[g].pc = "done" => tasks[g].err = ErrProductNotFound

\* an update that passed its check, lost the row to the other goroutine's
\* delete and returned ErrProductNotFound
C25_Witness ==
  \E g, h \in Callers :
    /\ tasks[g].pc = "done" /\ tasks[g].op = "UpdateProduct"
    /\ tasks[g].sawRow /\ tasks[g].lost
    /\ tasks[g].err = ErrProductNotFound
    /\ tasks[h].pc = "done" /\ tasks[h].op = "DeleteProduct"
    /\ tasks[h].id = tasks[g].id /\ tasks[h].err = NoErr

\* C26: of two DeleteProduct calls of one id that both passed the existence
\* check one returns nil and the other ErrProductNotFound; and a DeleteProduct
\* returns nothing but nil or ErrProductNotFound, and nil to one caller only.
C26_ConcurrentDeletes ==
  \A g, h \in Callers :
    (tasks[g].pc = "done" /\ tasks[g].op = "DeleteProduct") =>
      /\ tasks[g].err \in {NoErr, ErrProductNotFound}
      /\ (/\ h # g /\ tasks[h].pc = "done" /\ tasks[h].op = "DeleteProduct"
          /\ tasks[h].id = tasks[g].id) =>
           /\ ~(tasks[g].err = NoErr /\ tasks[h].err = NoErr)
           /\ (tasks[g].sawRow /\ tasks[h].sawRow) =>
                {tasks[g].err, tasks[h].err} = {NoErr, ErrProductNotFound}

\* both goroutines saw the row in their checks; one deleted it, the other's
\* Delete affected no row
C26_Witness ==
  \E g, h \in Callers :
    /\ g # h
    /\ tasks[g].pc = "done" /\ tasks[h].pc = "done"
    /\ tasks[g].op = "DeleteProduct" /\ tasks[h].op = "DeleteProduct"
    /\ tasks[g].id = tasks[h].id
    /\ tasks[g].sawRow /\ tasks[h].sawRow
    /\ tasks[g].err = NoErr /\ tasks[h].err = ErrProductNotFound

\* the value the input, the clock and the id hold for a column
BoundValue(col, id, input, now) ==
  IF col = "id" THEN SqlInt(id)
  ELSE IF col = "sku_amount" THEN SqlInt(input.sku_amount)
  ELSE IF col = "update_at" THEN SqlTime(now)
  ELSE SqlStr(input[col])

\* the place of a column in the fixed order of the SET list
SetRank(col) ==
  CHOOSE i \in 1..5 :
    <<"sku_code", "sku_name", "expiration", "sku_amount", "update_at">>[i] = col

\* C9: for every combination of blank and non-blank sku_code, sku_name and
\* expiration, the statement UpdateNonBlank builds sets exactly the non-blank
\* ones of the three, then sku_amount and update_at, in that fixed order; its
\* placeholders are numbered 1..k in order of appearance, the WHERE id
\* placeholder last, with k the number of bound arguments; the i-th argument is
\* the value of the column that carries placeholder i, and the id is the last.
C9_PlaceholdersMatchArguments ==
  stmt.phase = "built" =>
    LET q == stmt.q
        k == Len(q.args)
        n == Len(q.sets)
        optional == {c \in {"sku_code", "sku_name", "expiration"} : stmt.input[c] # ""}
    IN /\ k = n + 1
       /\ \A i \in 1..n : q.sets[i].ph = i
       /\ q.where = k
       /\ {q.sets[i].col : i \in 1..n} = optional \cup {"sku_amount", "update_at"}
       /\ \A i, j \in 1..n : i < j => SetRank(q.sets[i].col) < SetRank(q.sets[j].col)
       /\ \A i \in 1..n : q.args[i] = BoundValue(q.sets[i].col, stmt.id, stmt.input, stmt.now)
       /\ q.args[k] = BoundValue("id", stmt.id, stmt.input, stmt.now)

\* a statement built for an input whose sku_name alone is blank: four columns
\* set, expiration second
C9_Witness ==
  /\ stmt.phase = "built"
  /\ stmt.input.sku_code # "" /\ stmt.input.sku_name = "" /\ stmt.input.expiration # ""
  /\ Len(stmt.q.sets) = 4
  /\ stmt.q.sets[2].col = "expiration"

====
